---- MODULE Spec2Model ----
(***************************************************************************)
(* A model of the rust-matrix crate: the row-major Matrix container, the   *)
(* Rows / RowsMut row iterators (matrix/src/iter.rs), the data-parallel    *)
(* Matrix::mul (matrix/src/oper.rs) and the reference matmul_naive         *)
(* (benches/matrix_multiplication/src/lib.rs).                             *)
(*                                                                         *)
(* A slice is a pair (off, len) of positions in the buffer it borrows      *)
(* from; the static empty slice `&[]` is (0, 0).  Buffers are 0-indexed    *)
(* functions 0..len-1 -> element.                                          *)
(***************************************************************************)
EXTENDS Integers, Sequences, FiniteSets, TLC

\* ---------------------------------------------------------------- bounds
MaxRows ==
    4

MaxCols ==
    2

MaxElem ==
    1

MaxN ==
    5

MulRows ==
    2

MulInner ==
    2

MulCols ==
    2

MaxThreads ==
    2

\* the width of usize in bits
WordBits ==
    5

ApiRows ==
    3

ApiCols ==
    2

MaxWrites ==
    1

VARIABLES
    m,          \* the matrix the row iterator borrows from
    it,         \* the iterator: kind, remaining slice, num_columns, status
    ret,        \* what the last iterator call returned
    op,         \* the last iterator call: name and argument
    pre,        \* the iterator's remaining slice before the last call
    yielded,    \* the row slices handed out by this iterator so far
    onlyNext,   \* this iterator has been driven by next() only
    twin,       \* a RowsMut driven by the same calls as the Rows in `it`:
                \* its remaining slice and what its last call returned
    a,          \* the left operand of the multiplication
    b,          \* the right operand of the multiplication
    c,          \* Matrix::mul's result matrix, once allocated
    pc,         \* where the caller of Matrix::mul is
    err,        \* the sizes Matrix::mul's panic reports
    threads,    \* the size of the worker pool
    bridge,     \* the bridged iterator c.rows_mut().zip(a.rows())
    units,      \* the work units pulled from the bridge, in pull order
    drained,    \* the workers that found the bridge exhausted
    log,        \* per cell of c, the accumulations applied: the unit, k and
                \* the positions of a and b the term was read from
    naive,      \* the outcome of matmul_naive on the same operands
    overflow_checks,  \* the build's overflow-checks flag: on in the dev and
                      \* test profiles, off in the release profile
    call,       \* the last call on the Matrix API, its arguments and outcome
    writes      \* the writes into the matrix since it was constructed

iterVars ==
    <<m, it, ret, op, pre, yielded, onlyNext, twin>>

mulVars ==
    <<a, b, c, pc, err, threads, bridge, units, drained, log, naive>>

apiVars ==
    <<overflow_checks, call, writes>>

vars ==
    <<m, it, ret, op, pre, yielded, onlyNext, twin,
      a, b, c, pc, err, threads, bridge, units, drained, log, naive,
      overflow_checks, call, writes>>

\* ------------------------------------------------------------ the matrix
Elem ==
    0..MaxElem

\* struct Matrix<T> { data, num_rows, num_columns }
Matrix(data, num_rows, num_columns) ==
    [data |-> data, num_rows |-> num_rows, num_columns |-> num_columns]

\* the length of a buffer 0..n-1 -> T
BufLen(data) ==
    Cardinality(DOMAIN data)

\* the outcome of a constructor: a matrix, or the panic naming a dimension
Built(mat) ==
    [ok |-> TRUE, matrix |-> mat, dimension_name |-> ""]

InvalidDimension(dimension_name) ==
    [ok |-> FALSE, matrix |-> Matrix(<<>>, 0, 0),
     dimension_name |-> dimension_name]

\* a panic that names no dimension: `attempt to multiply with overflow`, or
\* the `capacity overflow` of vec!
ArithmeticOverflow ==
    [ok |-> FALSE, matrix |-> Matrix(<<>>, 0, 0), dimension_name |-> ""]

\* usize::MAX
usize_MAX ==
    2 ^ WordBits - 1

\* isize::MAX, the most bytes a Vec allocates: `capacity overflow` beyond it
isize_MAX ==
    2 ^ (WordBits - 1) - 1

\* x * y in usize: the product modulo 2^WordBits and whether it overflowed
usize_mul(x, y) ==
    [overflow |-> x * y > usize_MAX, value |-> (x * y) % (usize_MAX + 1)]

\* x + y in usize
usize_add(x, y) ==
    [overflow |-> x + y > usize_MAX, value |-> (x + y) % (usize_MAX + 1)]

\* vec![fill_value; n]
VecFill(fill_value, n) ==
    [i \in 0..(n - 1) |-> fill_value]

\* Matrix::full with the column count checked before the row count
Matrix_full_ColumnsFirst(num_rows, num_columns, fill_value) ==
    IF num_columns = 0
    THEN InvalidDimension("columns")
    ELSE IF num_rows = 0
         THEN InvalidDimension("rows")
         ELSE Built(Matrix(VecFill(fill_value, num_rows * num_columns),
                           num_rows, num_columns))

\* Matrix::full
Matrix_full(num_rows, num_columns, fill_value) ==
    IF num_rows = 0
    THEN InvalidDimension("rows")
    ELSE IF num_columns = 0
         THEN InvalidDimension("columns")
         ELSE LET len == usize_mul(num_rows, num_columns)
              IN  IF (len.overflow /\ overflow_checks) \/ len.value > isize_MAX
                  THEN ArithmeticOverflow
                  ELSE Built(Matrix(VecFill(fill_value, len.value),
                                    num_rows, num_columns))

\* Matrix::zeros
Matrix_zeros(num_rows, num_columns) ==
    Matrix_full(num_rows, num_columns, 0)

\* the values of the array collected column by column
Flatten_ColumnMajor(array, M, N) ==
    [i \in 0..(M * N - 1) |-> array[(i % M) + 1][(i \div M) + 1]]

\* array.into_iter().flatten().collect(): the M rows of N values, in order
Flatten(array, M, N) ==
    [i \in 0..(M * N - 1) |-> array[(i \div N) + 1][(i % N) + 1]]

\* <Matrix<T> as From<[[T; N]; M]>>::from; array is a sequence of M rows,
\* each a sequence of N values
Matrix_from(array, M, N) ==
    IF M = 0
    THEN InvalidDimension("rows")
    ELSE IF N = 0
         THEN InvalidDimension("columns")
         ELSE Built(Matrix(Flatten(array, M, N), M, N))

\* Matrix::as_flattened
as_flattened(mat) ==
    mat.data

\* the literal [[s, s+1, ..], ..] of M rows of N values, as the tests write
Literal(M, N, s) ==
    [r \in 1..M |-> [q \in 1..N |-> s + (r - 1) * N + (q - 1)]]

\* ---------------------------------------------------------------- slices
Slice(off, len) ==
    [off |-> off, len |-> len]

\* `&[]` / `&mut []` / Default::default() of a slice reference
EmptySlice ==
    Slice(0, 0)

\* <[T]>::is_empty
is_empty(s) ==
    s.len = 0

\* the elements a slice covers, as a sequence
SliceElems(data, s) ==
    [i \in 1..s.len |-> data[s.off + i - 1]]

\* the buffer positions a slice covers
SliceCells(s) ==
    {s.off + i : i \in 0..(s.len - 1)}

\* ------------------------------------------------------ iterator results
None ==
    [tag |-> "None", off |-> 0, len |-> 0, lo |-> 0, hi |-> 0]

Some(s) ==
    [tag |-> "Some", off |-> s.off, len |-> s.len, lo |-> 0, hi |-> 0]

\* the tuple (lo, Some(hi)) of size_hint
Hint(lo, hi) ==
    [tag |-> "Hint", off |-> 0, len |-> 0, lo |-> lo, hi |-> hi]

\* the usize of count
Count(n) ==
    [tag |-> "Count", off |-> 0, len |-> 0, lo |-> n, hi |-> n]

\* the call did not return: a bounds check failed
Panic ==
    [tag |-> "Panic", off |-> 0, len |-> 0, lo |-> 0, hi |-> 0]

\* no call made yet on this iterator
NoCall ==
    [tag |-> "NoCall", off |-> 0, len |-> 0, lo |-> 0, hi |-> 0]

\* the outcome of one iterator method: the new self.slice and the result
Outcome(slice, result) ==
    [slice |-> slice, ret |-> result]

\* ------------------------------------------------------------------ Rows
\* Rows::len without the division by the row width
Rows_len_InElements(slice, num_columns) ==
    slice.len

\* Rows::len
Rows_len(slice, num_columns) ==
    slice.len \div num_columns

\* Rows::next splitting one element off instead of one row
Rows_next_SplitAtOne(slice, num_columns) ==
    IF is_empty(slice)
    THEN Outcome(slice, None)
    ELSE Outcome(Slice(slice.off + 1, slice.len - 1), Some(Slice(slice.off, 1)))

\* Rows::next
Rows_next(slice, num_columns) ==
    IF is_empty(slice)
    THEN Outcome(slice, None)
    ELSE IF num_columns > slice.len
         THEN Outcome(slice, Panic)
         ELSE Outcome(Slice(slice.off + num_columns, slice.len - num_columns),
                      Some(Slice(slice.off, num_columns)))

\* Rows::size_hint
Rows_size_hint(slice, num_columns) ==
    IF is_empty(slice)
    THEN Outcome(slice, Hint(0, 0))
    ELSE Outcome(slice, Hint(Rows_len(slice, num_columns),
                             Rows_len(slice, num_columns)))

\* Rows::count
Rows_count(slice, num_columns) ==
    Outcome(slice, Count(Rows_len(slice, num_columns)))

\* Rows::nth keeping the returned row in the remaining slice
Rows_nth_RetainsRow(slice, num_columns, n) ==
    IF n > slice.len \div num_columns
    THEN Outcome(EmptySlice, None)
    ELSE LET start == n * num_columns
             end == start + num_columns
         IN  IF end > slice.len
             THEN Outcome(slice, Panic)
             ELSE Outcome(Slice(slice.off + start, slice.len - start),
                          Some(Slice(slice.off + start, end - start)))

\* Rows::nth reporting the end without giving up its remaining slice
Rows_nth_NoneKeepsSlice(slice, num_columns, n) ==
    IF n > slice.len \div num_columns
    THEN Outcome(slice, None)
    ELSE LET start == n * num_columns
             end == start + num_columns
         IN  IF end > slice.len
             THEN Outcome(slice, Panic)
             ELSE Outcome(Slice(slice.off + end, slice.len - end),
                          Some(Slice(slice.off + start, end - start)))

\* Rows::nth
Rows_nth(slice, num_columns, n) ==
    IF n > Rows_len(slice, num_columns)
    THEN Outcome(EmptySlice, None)
    ELSE LET start == n * num_columns
             end == start + num_columns
         IN  IF end > slice.len
             THEN Outcome(slice, Panic)
             ELSE Outcome(Slice(slice.off + end, slice.len - end),
                          Some(Slice(slice.off + start, end - start)))

\* Rows::last
Rows_last(slice, num_columns) ==
    IF is_empty(slice)
    THEN Outcome(slice, None)
    ELSE IF slice.len < num_columns
         THEN Outcome(slice, Panic)
         ELSE LET start == slice.len - num_columns
              IN  Outcome(slice, Some(Slice(slice.off + start, slice.len - start)))

\* --------------------------------------------------------------- RowsMut
\* RowsMut::len
RowsMut_len(slice, num_columns) ==
    slice.len \div num_columns

\* RowsMut::next handing out the head while retaining the whole slice
RowsMut_next_KeepsHead(slice, num_columns) ==
    IF is_empty(slice)
    THEN Outcome(slice, None)
    ELSE Outcome(slice, Some(Slice(slice.off, num_columns)))

\* RowsMut::next
RowsMut_next(slice, num_columns) ==
    IF is_empty(slice)
    THEN Outcome(slice, None)
    ELSE IF num_columns > slice.len
         THEN Outcome(EmptySlice, Panic)
         ELSE Outcome(Slice(slice.off + num_columns, slice.len - num_columns),
                      Some(Slice(slice.off, num_columns)))

\* RowsMut::size_hint
RowsMut_size_hint(slice, num_columns) ==
    IF is_empty(slice)
    THEN Outcome(slice, Hint(0, 0))
    ELSE Outcome(slice, Hint(RowsMut_len(slice, num_columns),
                             RowsMut_len(slice, num_columns)))

\* RowsMut::count
RowsMut_count(slice, num_columns) ==
    Outcome(slice, Count(RowsMut_len(slice, num_columns)))

\* RowsMut::nth keeping the returned row in the remaining slice
RowsMut_nth_RetainsRow(slice, num_columns, n) ==
    IF n > slice.len \div num_columns
    THEN Outcome(EmptySlice, None)
    ELSE LET start == n * num_columns
             end == start + num_columns
         IN  IF end > slice.len
             THEN Outcome(EmptySlice, Panic)
             ELSE Outcome(Slice(slice.off + start, slice.len - start),
                          Some(Slice(slice.off + start, end - start)))

\* RowsMut::nth
RowsMut_nth(slice, num_columns, n) ==
    IF n > RowsMut_len(slice, num_columns)
    THEN Outcome(EmptySlice, None)
    ELSE LET start == n * num_columns
             end == start + num_columns
         IN  IF end > slice.len
             THEN Outcome(EmptySlice, Panic)
             ELSE Outcome(Slice(slice.off + end, slice.len - end),
                          Some(Slice(slice.off + start, end - start)))

\* RowsMut::last returning the first remaining row
RowsMut_last_First(slice, num_columns) ==
    IF is_empty(slice)
    THEN Outcome(slice, None)
    ELSE Outcome(slice, Some(Slice(slice.off, num_columns)))

\* RowsMut::last
RowsMut_last(slice, num_columns) ==
    IF is_empty(slice)
    THEN Outcome(slice, None)
    ELSE IF slice.len < num_columns
         THEN Outcome(slice, Panic)
         ELSE LET start == slice.len - num_columns
              IN  Outcome(slice, Some(Slice(slice.off + start, slice.len - start)))

\* ------------------------------------------------- the iterator's caller
NoIter ==
    [kind |-> "none", slice |-> EmptySlice, num_columns |-> 0, status |-> "none"]

NoOp ==
    [name |-> "none", n |-> 0]

\* no RowsMut driven alongside
NoTwin ==
    [slice |-> EmptySlice, ret |-> NoCall]

\* no matrix: the place of a result that was never allocated
NoMatrix ==
    Matrix(<<>>, 0, 0)

NoErr ==
    [a_num_columns |-> 0, b_num_rows |-> 0]

NoBridge ==
    [c |-> EmptySlice, a |-> EmptySlice]

NaiveNotRun ==
    [status |-> "none", c |-> NoMatrix, err |-> NoErr]

\* no call on the Matrix API yet; a call that panicked (ok = FALSE) ends the
\* program
NoApiCall ==
    [name |-> "none", num_rows |-> 0, num_columns |-> 0, fill_value |-> 0,
     row_index |-> 0, column |-> 0, ok |-> TRUE, dimension_name |-> "",
     ret |-> NoCall, other |-> NoMatrix, equal |-> FALSE]

\* the API's call record while the iterator or the multiplication is exercised
ApiUnused ==
    /\ call = NoApiCall
    /\ writes = 0

\* the multiplication's state while only the iterator is exercised
MulUnused ==
    /\ a = NoMatrix
    /\ b = NoMatrix
    /\ c = NoMatrix
    /\ pc = "unused"
    /\ err = NoErr
    /\ threads = 0
    /\ bridge = NoBridge
    /\ units = <<>>
    /\ drained = 0
    /\ log = <<>>
    /\ naive = NaiveNotRun

\* the matrices the iterator specification starts from
IterMatrices ==
    {Matrix_full(R, C, v).matrix : R \in 1..MaxRows, C \in 1..MaxCols, v \in Elem}
    \cup {Matrix_from(Literal(R, C, 0), R, C).matrix : R \in 1..MaxRows, C \in 1..MaxCols}

InitIter ==
    /\ overflow_checks \in BOOLEAN
    /\ m \in IterMatrices
    /\ ApiUnused
    /\ it = NoIter
    /\ ret = NoCall
    /\ op = NoOp
    /\ pre = EmptySlice
    /\ yielded = <<>>
    /\ onlyNext = TRUE
    /\ twin = NoTwin
    /\ MulUnused

\* Matrix::rows
MatrixRows ==
    /\ it' = [kind |-> "Rows", slice |-> Slice(0, BufLen(m.data)),
              num_columns |-> m.num_columns, status |-> "live"]
    /\ ret' = NoCall
    /\ op' = [name |-> "rows", n |-> 0]
    /\ pre' = EmptySlice
    /\ yielded' = <<>>
    /\ onlyNext' = TRUE
    /\ UNCHANGED <<m, twin, mulVars, apiVars>>

\* Matrix::rows_mut
MatrixRowsMut ==
    /\ it' = [kind |-> "RowsMut", slice |-> Slice(0, BufLen(m.data)),
              num_columns |-> m.num_columns, status |-> "live"]
    /\ ret' = NoCall
    /\ op' = [name |-> "rows_mut", n |-> 0]
    /\ pre' = EmptySlice
    /\ yielded' = <<>>
    /\ onlyNext' = TRUE
    /\ UNCHANGED <<m, twin, mulVars, apiVars>>

\* one call of an iterator method: `out` is its outcome, `consumes` whether
\* the method takes self by value
Call(kind, name, n, out, consumes) ==
    /\ it.kind = kind
    /\ it.status = "live"
    /\ it' = [it EXCEPT !.slice = out.slice,
                        !.status = IF out.ret.tag = "Panic" THEN "panicked"
                                   ELSE IF consumes THEN "consumed"
                                   ELSE "live"]
    /\ ret' = out.ret
    /\ op' = [name |-> name, n |-> n]
    /\ pre' = it.slice
    /\ yielded' = IF out.ret.tag = "Some"
                  THEN Append(yielded, Slice(out.ret.off, out.ret.len))
                  ELSE yielded
    /\ onlyNext' = (onlyNext /\ name = "next")
    /\ UNCHANGED <<m, twin, mulVars, apiVars>>

RowsNext ==
    Call("Rows", "next", 0, Rows_next(it.slice, it.num_columns), FALSE)

RowsSizeHint ==
    Call("Rows", "size_hint", 0, Rows_size_hint(it.slice, it.num_columns), FALSE)

RowsCount ==
    Call("Rows", "count", 0, Rows_count(it.slice, it.num_columns), TRUE)

RowsNth ==
    \E n \in 0..MaxN :
        Call("Rows", "nth", n, Rows_nth(it.slice, it.num_columns, n), FALSE)

RowsLast ==
    Call("Rows", "last", 0, Rows_last(it.slice, it.num_columns), TRUE)

RowsMutNext ==
    Call("RowsMut", "next", 0, RowsMut_next(it.slice, it.num_columns), FALSE)

RowsMutSizeHint ==
    Call("RowsMut", "size_hint", 0, RowsMut_size_hint(it.slice, it.num_columns), FALSE)

RowsMutCount ==
    Call("RowsMut", "count", 0, RowsMut_count(it.slice, it.num_columns), TRUE)

RowsMutNth ==
    \E n \in 0..MaxN :
        Call("RowsMut", "nth", n, RowsMut_nth(it.slice, it.num_columns, n), FALSE)

RowsMutLast ==
    Call("RowsMut", "last", 0, RowsMut_last(it.slice, it.num_columns), TRUE)

NextIter ==
    \/ MatrixRows
    \/ MatrixRowsMut
    \/ RowsNext
    \/ RowsSizeHint
    \/ RowsCount
    \/ RowsNth
    \/ RowsLast
    \/ RowsMutNext
    \/ RowsMutSizeHint
    \/ RowsMutCount
    \/ RowsMutNth
    \/ RowsMutLast

SpecIter ==
    InitIter /\ [][NextIter]_vars

\* ------------------------------------------- Rows and RowsMut side by side
\* a Rows and a RowsMut over buffers of the length and column width of m
PairNew ==
    /\ it' = [kind |-> "pair", slice |-> Slice(0, BufLen(m.data)),
              num_columns |-> m.num_columns, status |-> "live"]
    /\ twin' = [slice |-> Slice(0, BufLen(m.data)), ret |-> NoCall]
    /\ ret' = NoCall
    /\ op' = [name |-> "new", n |-> 0]
    /\ pre' = EmptySlice
    /\ yielded' = <<>>
    /\ onlyNext' = TRUE
    /\ UNCHANGED <<m, mulVars, apiVars>>

\* the same method called on both: `out` is the outcome of Rows, `out_mut`
\* of RowsMut; a caller that catches the unwind of a panic keeps both
PairCall(name, n, out, out_mut, consumes) ==
    /\ it.kind = "pair"
    /\ it.status = "live"
    /\ it' = [it EXCEPT !.slice = out.slice,
                        !.status = IF consumes THEN "consumed" ELSE "live"]
    /\ twin' = [slice |-> out_mut.slice, ret |-> out_mut.ret]
    /\ ret' = out.ret
    /\ op' = [name |-> name, n |-> n]
    /\ pre' = it.slice
    /\ yielded' = IF out.ret.tag = "Some"
                  THEN Append(yielded, Slice(out.ret.off, out.ret.len))
                  ELSE yielded
    /\ onlyNext' = (onlyNext /\ name = "next")
    /\ UNCHANGED <<m, mulVars, apiVars>>

PairNext ==
    PairCall("next", 0, Rows_next(it.slice, it.num_columns),
             RowsMut_next(twin.slice, it.num_columns), FALSE)

PairSizeHint ==
    PairCall("size_hint", 0, Rows_size_hint(it.slice, it.num_columns),
             RowsMut_size_hint(twin.slice, it.num_columns), FALSE)

PairCount ==
    PairCall("count", 0, Rows_count(it.slice, it.num_columns),
             RowsMut_count(twin.slice, it.num_columns), TRUE)

PairNth ==
    \E n \in 0..MaxN :
        PairCall("nth", n, Rows_nth(it.slice, it.num_columns, n),
                 RowsMut_nth(twin.slice, it.num_columns, n), FALSE)

PairLast ==
    PairCall("last", 0, Rows_last(it.slice, it.num_columns),
             RowsMut_last(twin.slice, it.num_columns), TRUE)

NextPair ==
    \/ PairNew
    \/ PairNext
    \/ PairSizeHint
    \/ PairCount
    \/ PairNth
    \/ PairLast

SpecPair ==
    InitIter /\ [][NextPair]_vars

\* ---------------------------------------------- reading the iterator
\* next() of the iterator kind at hand
IterNext(kind, slice, num_columns) ==
    IF kind = "Rows"
    THEN Rows_next(slice, num_columns)
    ELSE RowsMut_next(slice, num_columns)

IterSizeHint(kind, slice, num_columns) ==
    IF kind = "Rows"
    THEN Rows_size_hint(slice, num_columns)
    ELSE RowsMut_size_hint(slice, num_columns)

IterCount(kind, slice, num_columns) ==
    IF kind = "Rows"
    THEN Rows_count(slice, num_columns)
    ELSE RowsMut_count(slice, num_columns)

\* the outcome of the last of k successive next() calls (k >= 1)
RECURSIVE NextTimes(_, _, _, _)
NextTimes(kind, slice, num_columns, k) ==
    LET out == IterNext(kind, slice, num_columns)
    IN  IF k <= 1 \/ out.ret.tag # "Some"
        THEN out
        ELSE NextTimes(kind, out.slice, num_columns, k - 1)

\* the rows next() returns when called until it stops returning a row
RECURSIVE Drain(_, _, _)
Drain(kind, slice, num_columns) ==
    LET out == IterNext(kind, slice, num_columns)
    IN  IF out.ret.tag # "Some"
        THEN <<>>
        ELSE <<Slice(out.ret.off, out.ret.len)>> \o Drain(kind, out.slice, num_columns)

\* the elements of a sequence of slices, one after the other
RECURSIVE Concat(_, _)
Concat(data, slices) ==
    IF slices = <<>>
    THEN <<>>
    ELSE SliceElems(data, Head(slices)) \o Concat(data, Tail(slices))

\* a buffer as a sequence
BufSeq(data) ==
    [i \in 1..BufLen(data) |-> data[i - 1]]

\* the rows the iterator had left before the last call
RemainingBefore ==
    pre.len \div it.num_columns

\* C5: a fresh rows() iterator driven by next() alone yields row 0, row 1,
\* ..., each of length C at [i*C, (i+1)*C), exactly R of them, then
\* end-of-sequence, and the yielded slices concatenated are as_flattened().
C5_RowsYieldsEveryRowInOrder ==
    (it.kind = "Rows" /\ onlyNext) =>
        /\ ret.tag # "Panic"
        /\ Len(yielded) <= m.num_rows
        /\ \A i \in 1..Len(yielded) :
              yielded[i] = Slice((i - 1) * m.num_columns, m.num_columns)
        /\ (Rows_next(it.slice, it.num_columns).ret = None) <=> (Len(yielded) = m.num_rows)
        /\ (ret = None) =>
              /\ Len(yielded) = m.num_rows
              /\ Concat(m.data, yielded) = BufSeq(as_flattened(m))

C5_Witness ==
    /\ it.kind = "Rows"
    /\ onlyNext
    /\ op.name = "next"
    /\ ret = None
    /\ m.num_rows >= 3
    /\ m.num_columns >= 2
    /\ m.data[0] # m.data[1]

\* C6: nth(k) with k >= the remaining row count (k equal to it, and k = 0
\* on an exhausted iterator, included) returns None and leaves the iterator
\* exhausted, so that a following next() returns None.
C6_NthPastEndExhausts ==
    (op.name = "nth" /\ op.n >= RemainingBefore) =>
        /\ ret = None
        /\ is_empty(it.slice)
        /\ IterNext(it.kind, it.slice, it.num_columns).ret = None

\* C7: nth(k) with k below the remaining row count returns the row the last
\* of k+1 next() calls returns and leaves the iterator where those calls
\* leave it, one row past the returned row.
C7_NthIsRepeatedNext ==
    (op.name = "nth" /\ op.n < RemainingBefore) =>
        LET stepped == NextTimes(it.kind, pre, it.num_columns, op.n + 1)
        IN  /\ ret.tag = "Some"
            /\ ret = stepped.ret
            /\ it.slice = stepped.slice
            /\ it.slice.off = ret.off + ret.len
            /\ ret.off = pre.off + op.n * it.num_columns

C7_Witness ==
    /\ op.name = "nth"
    /\ op.n >= 1
    /\ op.n < RemainingBefore
    /\ pre.off > 0
    /\ ~is_empty(it.slice)

\* C8: last() returns the final row that next() called until exhaustion
\* would return, and returns None exactly when no rows remain.
C8_LastIsFinalRowOfTraversal ==
    (op.name = "last") =>
        LET rows == Drain(it.kind, pre, it.num_columns)
        IN  /\ (ret = None) <=> (RemainingBefore = 0)
            /\ (ret = None) <=> (rows = <<>>)
            /\ rows # <<>> => ret = Some(rows[Len(rows)])

C8_Witness ==
    /\ op.name = "last"
    /\ ret.tag = "Some"
    /\ RemainingBefore >= 2
    /\ pre.off > 0

\* C9: every slice a RowsMut hands out is one whole row [r*C, (r+1)*C) of
\* the buffer, no two of them share a position, and the slice the iterator
\* retains shares no position with any of them.
C9_RowsMutYieldsDisjointRows ==
    (it.kind = "RowsMut") =>
        /\ \A i \in 1..Len(yielded) :
              /\ yielded[i].len = m.num_columns
              /\ yielded[i].off % m.num_columns = 0
              /\ SliceCells(yielded[i]) \subseteq DOMAIN m.data
        /\ \A i, j \in 1..Len(yielded) :
              i # j => SliceCells(yielded[i]) \cap SliceCells(yielded[j]) = {}
        /\ (it.status # "consumed") =>
              \A i \in 1..Len(yielded) :
                  SliceCells(yielded[i]) \cap SliceCells(it.slice) = {}

C9_Witness ==
    /\ it.kind = "RowsMut"
    /\ op.name = "last"
    /\ Len(yielded) >= 3
    /\ m.num_columns >= 2

\* C10: the remaining slice length is a multiple of num_columns; with
\* n = remaining length / num_columns, size_hint() is (n, Some(n)), count()
\* is n, and exactly n further next() calls return a row.
C10_ExactSize ==
    (it.kind # "none") =>
        LET n == it.slice.len \div it.num_columns
        IN  /\ it.slice.len % it.num_columns = 0
            /\ IterSizeHint(it.kind, it.slice, it.num_columns).ret = Hint(n, n)
            /\ IterCount(it.kind, it.slice, it.num_columns).ret = Count(n)
            /\ Len(Drain(it.kind, it.slice, it.num_columns)) = n
            /\ (op.name = "size_hint") => ret = Hint(n, n)
            /\ (op.name = "count") => ret = Count(n)

C10_Witness ==
    /\ op.name = "size_hint"
    /\ ret.lo >= 1
    /\ pre.off > 0
    /\ it.num_columns >= 2

\* the iterator is one and the same across the step: no rows()/rows_mut()
SameIterator ==
    /\ it.kind # "none"
    /\ it'.kind = it.kind
    /\ op'.name \notin {"rows", "rows_mut"}

C17_StateInv ==
    /\ (op.name \in {"next", "nth"} /\ ret = None) => is_empty(it.slice)
    /\ (it.kind # "none" /\ is_empty(it.slice)) =>
          /\ IterNext(it.kind, it.slice, it.num_columns).ret = None
          /\ is_empty(IterNext(it.kind, it.slice, it.num_columns).slice)
          /\ IterSizeHint(it.kind, it.slice, it.num_columns).ret = Hint(0, 0)
    /\ (op.name \in {"rows", "rows_mut"}) =>
          /\ it.slice = Slice(0, m.num_rows * m.num_columns)
          /\ yielded = <<>>
          /\ IterNext(it.kind, it.slice, it.num_columns).ret
                = Some(Slice(0, m.num_columns))
          /\ Len(Drain(it.kind, it.slice, it.num_columns)) = m.num_rows

C17_Step ==
    SameIterator =>
        /\ it'.slice.len <= it.slice.len
        /\ is_empty(it.slice) =>
              /\ is_empty(it'.slice)
              /\ (op'.name = "next") => ret' = None
              /\ (op'.name = "size_hint") => ret' = Hint(0, 0)

\* C17: exhaustion is absorbing: once next() or nth() has returned None the
\* iterator is empty, every later next() returns None and size_hint() stays
\* (0, Some(0)); no call on an iterator increases its remaining rows; a new
\* rows()/rows_mut() call starts at row 0 with all R rows remaining.
C17_ExhaustionIsAbsorbing ==
    /\ []C17_StateInv
    /\ [][C17_Step]_vars

C17_Witness ==
    /\ op.name = "next"
    /\ ret = None
    /\ is_empty(pre)
    /\ Len(yielded) >= 2
    /\ m.num_rows >= 3

\* ------------------------------------------------------- row indexing
\* <Matrix<T> as Index<usize>>::index: the row's range, or a failed bounds
\* check of the range
Matrix_index(mat, row_index) ==
    LET start == usize_mul(row_index, mat.num_columns)
        next == usize_add(row_index, 1)
        end == usize_mul(next.value, mat.num_columns)
    IN  IF overflow_checks /\ (start.overflow \/ next.overflow \/ end.overflow)
        THEN Outcome(EmptySlice, Panic)
        ELSE IF start.value > end.value \/ end.value > BufLen(mat.data)
             THEN Outcome(EmptySlice, Panic)
             ELSE Outcome(EmptySlice,
                          Some(Slice(start.value, end.value - start.value)))

\* ---------------------------------------------------------- matmul_naive
\* the check comparing the operands' column counts
DimensionsMatch_Columns(lhs, rhs) ==
    lhs.num_columns = rhs.num_columns

\* the comparison both multiplications start with
DimensionsMatch(lhs, rhs) ==
    lhs.num_columns = rhs.num_rows

\* `for k in 0..a.num_columns() { res += ai[k] * b[k][j]; }` from k on
RECURSIVE NaiveRes(_, _, _, _, _, _)
NaiveRes(lhs, rhs, ai, j, k, res) ==
    IF k >= lhs.num_columns
    THEN res
    ELSE NaiveRes(lhs, rhs, ai, j, k + 1,
                  res + lhs.data[ai.off + k]
                        * rhs.data[Matrix_index(rhs, k).ret.off + j])

\* every index the loops of matmul_naive use passes its bounds check
NaiveInBounds(lhs, rhs, res) ==
    /\ \A i \in 0..(lhs.num_rows - 1) :
          /\ Matrix_index(lhs, i).ret.tag = "Some"
          /\ Matrix_index(res, i).ret.tag = "Some"
          /\ Matrix_index(lhs, i).ret.len >= lhs.num_columns
          /\ Matrix_index(res, i).ret.len >= rhs.num_columns
    /\ \A k \in 0..(lhs.num_columns - 1) :
          /\ Matrix_index(rhs, k).ret.tag = "Some"
          /\ Matrix_index(rhs, k).ret.len >= rhs.num_columns

\* matmul_naive: the loops over i and j, each cell stored once
matmul_naive(lhs, rhs) ==
    IF ~DimensionsMatch(lhs, rhs)
    THEN [status |-> "panicked", c |-> NoMatrix,
          err |-> [a_num_columns |-> lhs.num_columns, b_num_rows |-> rhs.num_rows]]
    ELSE LET zeros == Matrix_zeros(lhs.num_rows, rhs.num_columns)
         IN  IF ~zeros.ok \/ ~NaiveInBounds(lhs, rhs, zeros.matrix)
             THEN [status |-> "panicked", c |-> NoMatrix, err |-> NoErr]
             ELSE [status |-> "ok",
                   c |-> [zeros.matrix EXCEPT !.data =
                            [x \in DOMAIN zeros.matrix.data |->
                                NaiveRes(lhs, rhs,
                                         Matrix_index(lhs, x \div rhs.num_columns).ret,
                                         x % rhs.num_columns, 0, 0)]],
                   err |-> NoErr]

\* the reads `ai[k] * b[k][j]` of matmul_naive for cell (i, j), in the order
\* of `for k in 0..a.num_columns()`: the positions in a's and b's buffers
NaiveTerms(lhs, rhs, i, j) ==
    [x \in 1..lhs.num_columns |->
        [aik |-> Matrix_index(lhs, i).ret.off + (x - 1),
         bkj |-> Matrix_index(rhs, x - 1).ret.off + j]]

\* ----------------------------------------------------------- Matrix::mul
\* Zip::next of c.rows_mut().zip(a.rows()): the first iterator is asked
\* first, the second only when the first returned a row
BridgeNext(br, c_num_columns, a_num_columns) ==
    LET ci == RowsMut_next(br.c, c_num_columns)
    IN  IF ci.ret.tag # "Some"
        THEN [bridge |-> [br EXCEPT !.c = ci.slice], some |-> FALSE,
              ci |-> EmptySlice, ai |-> EmptySlice]
        ELSE LET ai == Rows_next(br.a, a_num_columns)
             IN  [bridge |-> [c |-> ci.slice, a |-> ai.slice],
                  some |-> ai.ret.tag = "Some",
                  ci |-> Slice(ci.ret.off, ci.ret.len),
                  ai |-> Slice(ai.ret.off, ai.ret.len)]

\* the closure's position: the next `+=` of b.rows().zip(ai.iter()) and
\* ci.iter_mut().zip(bk.iter()), or done when the outer zip is exhausted
RECURSIVE EnterRow(_, _)
EnterRow(unit, b_num_columns) ==
    LET bk == Rows_next(unit.rows, b_num_columns)
    IN  IF bk.ret.tag # "Some" \/ unit.k >= unit.ai.len
        THEN [unit EXCEPT !.state = "done"]
        ELSE LET entered == [unit EXCEPT !.rows = bk.slice,
                                         !.bk = Slice(bk.ret.off, bk.ret.len),
                                         !.aik = unit.ai.off + unit.k,
                                         !.k = unit.k + 1,
                                         !.j = 0]
             IN  IF entered.ci.len = 0 \/ entered.bk.len = 0
                 THEN EnterRow(entered, b_num_columns)
                 ELSE entered

\* the unit after one `+=`: the next column, or the next row of b
Advance(unit, b_num_columns) ==
    IF unit.j + 1 < unit.ci.len /\ unit.j + 1 < unit.bk.len
    THEN [unit EXCEPT !.j = unit.j + 1]
    ELSE EnterRow(unit, b_num_columns)

\* the closure started with b.rows() one row in
NewUnit_SkipsFirstRow(ci, ai, rhs) ==
    EnterRow([ci |-> ci, ai |-> ai,
              rows |-> Slice(rhs.num_columns, BufLen(rhs.data) - rhs.num_columns),
              bk |-> EmptySlice, aik |-> 0, k |-> 0, j |-> 0, state |-> "run"],
             rhs.num_columns)

\* the closure called on (ci, ai): b.rows() is fresh and ai.iter() at 0
NewUnit(ci, ai, rhs) ==
    EnterRow([ci |-> ci, ai |-> ai, rows |-> Slice(0, BufLen(rhs.data)),
              bk |-> EmptySlice, aik |-> 0, k |-> 0, j |-> 0, state |-> "run"],
             rhs.num_columns)

\* the update storing the term instead of accumulating it
MulAdd_Store(cij, aik, bkj) ==
    aik * bkj

\* (*cij) += (*aik) * (*bkj)
MulAdd(cij, aik, bkj) ==
    cij + aik * bkj

\* the `+=` of a unit storing its sum through the operand element it read
Accumulate_IntoOperand(lhs, rhs, res, unit) ==
    [a |-> [lhs EXCEPT !.data[unit.aik] =
                MulAdd(res.data[unit.ci.off + unit.j], lhs.data[unit.aik],
                       rhs.data[unit.bk.off + unit.j])],
     b |-> rhs,
     c |-> res]

\* the three matrices after the next `+=` of a unit: it writes through cij,
\* an element of the unit's row of c, and reads aik and bkj
Accumulate(lhs, rhs, res, unit) ==
    [a |-> lhs,
     b |-> rhs,
     c |-> [res EXCEPT !.data[unit.ci.off + unit.j] =
                MulAdd(res.data[unit.ci.off + unit.j], lhs.data[unit.aik],
                       rhs.data[unit.bk.off + unit.j])]]

\* the units that are running their closure
Running ==
    {u \in 1..Len(units) : units[u].state = "run"}

\* the idle workers counted with the calling thread taken out of the pool
Idle_WithoutCaller ==
    threads - Cardinality(Running) - drained - 1

\* the workers that hold no unit and have not yet found the bridge exhausted
Idle ==
    threads - Cardinality(Running) - drained

\* the join taken as soon as one worker has found the bridge exhausted
Joined_AnyDrained ==
    drained >= 1

\* for_each returning as soon as every pair has been pulled
Joined_AllPulled ==
    is_empty(bridge.c)

\* for_each returns when every worker has left its loop
Joined ==
    drained = threads

\* the operands the multiplication specification starts from
Operands(R, C) ==
    {Matrix_full(R, C, v).matrix : v \in Elem}
    \cup {Matrix_from(Literal(R, C, s), R, C).matrix : s \in Elem}

IterUnused ==
    /\ m = NoMatrix
    /\ it = NoIter
    /\ ret = NoCall
    /\ op = NoOp
    /\ pre = EmptySlice
    /\ yielded = <<>>
    /\ onlyNext = TRUE
    /\ twin = NoTwin

InitMul ==
    /\ overflow_checks \in BOOLEAN
    /\ ApiUnused
    /\ \E R \in 1..MulRows, K \in 1..MulInner : a \in Operands(R, K)
    /\ \E K \in 1..MulInner, C \in 1..MulCols : b \in Operands(K, C)
    /\ c = NoMatrix
    /\ pc = "start"
    /\ err = NoErr
    /\ threads \in 1..MaxThreads
    /\ bridge = NoBridge
    /\ units = <<>>
    /\ drained = 0
    /\ log = <<>>
    /\ naive = NaiveNotRun
    /\ IterUnused

\* Matrix::mul, the dimension check
MulAssert ==
    /\ pc = "start"
    /\ IF DimensionsMatch(a, b)
       THEN /\ pc' = "checked"
            /\ err' = err
       ELSE /\ pc' = "panicked"
            /\ err' = [a_num_columns |-> a.num_columns, b_num_rows |-> b.num_rows]
    /\ UNCHANGED <<a, b, c, threads, bridge, units, drained, log, naive, iterVars, apiVars>>

\* Matrix::mul, the allocation of c and the construction of the bridge
MulZeros ==
    /\ pc = "checked"
    /\ LET zeros == Matrix_zeros(a.num_rows, b.num_columns)
       IN  IF zeros.ok
           THEN /\ c' = zeros.matrix
                /\ bridge' = [c |-> Slice(0, BufLen(zeros.matrix.data)),
                              a |-> Slice(0, BufLen(a.data))]
                /\ log' = [x \in DOMAIN zeros.matrix.data |-> <<>>]
                /\ pc' = "forked"
           ELSE /\ pc' = "panicked"
                /\ UNCHANGED <<c, bridge, log>>
    /\ UNCHANGED <<a, b, err, threads, units, drained, naive, iterVars, apiVars>>

\* an idle worker locks the bridge and calls next(): it starts the closure
\* on the pair it got, or leaves its loop when there is none
WorkerPull ==
    /\ pc = "forked"
    /\ Idle > 0
    /\ LET got == BridgeNext(bridge, c.num_columns, a.num_columns)
       IN  /\ bridge' = got.bridge
           /\ IF got.some
              THEN /\ units' = Append(units, NewUnit(got.ci, got.ai, b))
                   /\ drained' = drained
              ELSE /\ units' = units
                   /\ drained' = drained + 1
    /\ UNCHANGED <<a, b, c, pc, err, threads, log, naive, iterVars, apiVars>>

\* a worker applies the next `+=` of its unit
UnitStep ==
    /\ pc = "forked"
    /\ \E u \in Running :
          LET unit == units[u]
              cell == unit.ci.off + unit.j
              after == Accumulate(a, b, c, unit)
          IN  /\ a' = after.a
              /\ b' = after.b
              /\ c' = after.c
              /\ log' = [log EXCEPT ![cell] =
                          Append(@, [unit |-> u, k |-> unit.k - 1,
                                     aik |-> unit.aik,
                                     bkj |-> unit.bk.off + unit.j])]
              /\ units' = [units EXCEPT ![u] = Advance(unit, b.num_columns)]
    /\ UNCHANGED <<pc, err, threads, bridge, drained, naive, iterVars, apiVars>>

\* Matrix::mul returns c
MulReturn ==
    /\ pc = "forked"
    /\ Joined
    /\ pc' = "returned"
    /\ UNCHANGED <<a, b, c, err, threads, bridge, units, drained, log, naive, iterVars, apiVars>>

\* the caller runs matmul_naive on the same operands afterwards
MatmulNaive ==
    /\ pc \in {"returned", "panicked"}
    /\ naive.status = "none"
    /\ naive' = matmul_naive(a, b)
    /\ UNCHANGED <<a, b, c, pc, err, threads, bridge, units, drained, log, iterVars, apiVars>>

NextMul ==
    \/ MulAssert
    \/ MulZeros
    \/ WorkerPull
    \/ UnitStep
    \/ MulReturn
    \/ MatmulNaive

SpecMul ==
    InitMul /\ [][NextMul]_vars

\* operands of every shape filled with ones: no guard of Matrix::mul reads an
\* element, so the steps a call can take depend on the shapes and the pool only
InitMulFair ==
    /\ InitMul
    /\ a = Matrix_full(a.num_rows, a.num_columns, 1).matrix
    /\ b = Matrix_full(b.num_rows, b.num_columns, 1).matrix

\* the caller's thread and the pool's worker threads are scheduled by the
\* operating system: while some thread can take a step, one eventually does
SpecMulFair ==
    /\ InitMulFair
    /\ [][NextMul]_vars
    /\ WF_vars(NextMul)

\* a unit's closure run to its end on one worker
RECURSIVE RunUnit(_, _, _, _)
RunUnit(lhs, rhs, res, unit) ==
    IF unit.state = "done"
    THEN res
    ELSE RunUnit(lhs, rhs, Accumulate(lhs, rhs, res, unit).c,
                 Advance(unit, rhs.num_columns))

\* for_each on a pool of one worker: the pairs of the bridge, one after the
\* other, each run to its end
RECURSIVE RunBridge(_, _, _, _)
RunBridge(lhs, rhs, res, br) ==
    LET got == BridgeNext(br, res.num_columns, lhs.num_columns)
    IN  IF ~got.some
        THEN res
        ELSE RunBridge(lhs, rhs,
                       RunUnit(lhs, rhs, res, NewUnit(got.ci, got.ai, rhs)),
                       got.bridge)

\* Matrix::mul on a pool of one worker
Matrix_mul(lhs, rhs) ==
    IF ~DimensionsMatch(lhs, rhs)
    THEN [status |-> "panicked", c |-> NoMatrix,
          err |-> [a_num_columns |-> lhs.num_columns, b_num_rows |-> rhs.num_rows]]
    ELSE LET zeros == Matrix_zeros(lhs.num_rows, rhs.num_columns)
         IN  IF ~zeros.ok
             THEN [status |-> "panicked", c |-> NoMatrix, err |-> NoErr]
             ELSE [status |-> "ok",
                   c |-> RunBridge(lhs, rhs, zeros.matrix,
                                   [c |-> Slice(0, BufLen(zeros.matrix.data)),
                                    a |-> Slice(0, BufLen(lhs.data))]),
                   err |-> NoErr]

\* ------------------------------------------------------- the Matrix API
\* Matrix::new, with T::default() = 0 for the integer element types
Matrix_new(num_rows, num_columns) ==
    Matrix_full(num_rows, num_columns, 0)

\* Matrix::ones
Matrix_ones(num_rows, num_columns) ==
    Matrix_full(num_rows, num_columns, 1)

\* an equality that compares the buffers only
Matrix_eq_DataOnly(lhs, rhs) ==
    lhs.data = rhs.data

\* #[derive(PartialEq)]: the fields compared in declaration order
Matrix_eq(lhs, rhs) ==
    /\ lhs.data = rhs.data
    /\ lhs.num_rows = rhs.num_rows
    /\ lhs.num_columns = rhs.num_columns

\* a store into a copy of the row: the buffer keeps its elements
WriteSlice_Detached(data, slice, j, v) ==
    data

\* slice[j] = v for a slice borrowed mutably from data
WriteSlice(data, slice, j, v) ==
    [data EXCEPT ![slice.off + j] = v]

\* the outcome of a write into mat: the matrix after it, or the panic
Written(mat) ==
    [ok |-> TRUE, matrix |-> mat]

WritePanicked(mat) ==
    [ok |-> FALSE, matrix |-> mat]

\* matrix[row_index][j] = v
IndexAssign(mat, row_index, j, v) ==
    LET row == Matrix_index(mat, row_index).ret
    IN  IF row.tag # "Some" \/ j >= row.len
        THEN WritePanicked(mat)
        ELSE Written([mat EXCEPT !.data =
                         WriteSlice(mat.data, Slice(row.off, row.len), j, v)])

\* matrix.rows_mut().nth(r).unwrap()[j] = v
RowsMutAssign(mat, r, j, v) ==
    LET row == RowsMut_nth(Slice(0, BufLen(mat.data)), mat.num_columns, r).ret
    IN  IF row.tag # "Some" \/ j >= row.len
        THEN WritePanicked(mat)
        ELSE Written([mat EXCEPT !.data =
                         WriteSlice(mat.data, Slice(row.off, row.len), j, v)])

\* std::mem::swap(&mut first_row[j], &mut last_row[j])
SwapElem(data, first_row, last_row, j) ==
    WriteSlice(WriteSlice(data, first_row, j, data[last_row.off + j]),
               last_row, j, data[first_row.off + j])

\* the swaps of elements 0 .. n-1 of the two rows, one after the other
RECURSIVE SwapElems(_, _, _, _)
SwapElems(data, first_row, last_row, n) ==
    IF n = 0
    THEN data
    ELSE SwapElem(SwapElems(data, first_row, last_row, n - 1),
                  first_row, last_row, n - 1)

\* let first_row = rows_mut.nth(n).unwrap(); let last_row =
\* rows_mut.last().unwrap(); then the swap of every element of the two rows
RowsMutSwap(mat, n) ==
    LET first == RowsMut_nth(Slice(0, BufLen(mat.data)), mat.num_columns, n)
    IN  IF first.ret.tag # "Some"
        THEN WritePanicked(mat)
        ELSE LET last == RowsMut_last(first.slice, mat.num_columns)
             IN  IF last.ret.tag # "Some"
                 THEN WritePanicked(mat)
                 ELSE Written([mat EXCEPT !.data =
                         SwapElems(mat.data,
                                   Slice(first.ret.off, first.ret.len),
                                   Slice(last.ret.off, last.ret.len),
                                   mat.num_columns)])

\* the row counts the constructors are called with: none, the small ones and
\* one whose product with a column count can exceed usize::MAX
RowInputs ==
    0..ApiRows \cup {2 ^ (WordBits - 1)}

\* the matrices a matrix is compared with: itself, its values under the
\* transposed shape, and the filled matrices of its shape
EqOperands(mat) ==
    {mat, Matrix(mat.data, mat.num_columns, mat.num_rows)}
    \cup {Matrix(VecFill(v, BufLen(mat.data)), mat.num_rows, mat.num_columns) :
            v \in Elem}

InitMatrix ==
    /\ overflow_checks \in BOOLEAN
    /\ call = NoApiCall
    /\ writes = 0
    /\ IterUnused
    /\ MulUnused

\* the values the writes store: one that no constructor here fills in
WriteValues ==
    {MaxElem + 1}

\* a constructor call of a program that holds no matrix yet: the matrix
\* built, or the panic that ends the program without one
Constructed(name, out, num_rows, num_columns, fill_value) ==
    /\ m = NoMatrix
    /\ call.ok
    /\ m' = IF out.ok THEN out.matrix ELSE NoMatrix
    /\ call' = [NoApiCall EXCEPT !.name = name,
                                 !.num_rows = num_rows,
                                 !.num_columns = num_columns,
                                 !.fill_value = fill_value,
                                 !.ok = out.ok,
                                 !.dimension_name = out.dimension_name]
    /\ writes' = IF out.ok THEN 0 ELSE writes
    /\ UNCHANGED <<it, ret, op, pre, yielded, onlyNext, twin, mulVars, overflow_checks>>

MatrixFull ==
    \E R \in RowInputs, C \in 0..ApiCols, v \in Elem :
        Constructed("full", Matrix_full(R, C, v), R, C, v)

MatrixNew ==
    \E R \in RowInputs, C \in 0..ApiCols :
        Constructed("new", Matrix_new(R, C), R, C, 0)

MatrixZeros ==
    \E R \in RowInputs, C \in 0..ApiCols :
        Constructed("zeros", Matrix_zeros(R, C), R, C, 0)

MatrixOnes ==
    \E R \in RowInputs, C \in 0..ApiCols :
        Constructed("ones", Matrix_ones(R, C), R, C, 1)

\* Matrix::from on the literal of M rows of N values starting at s
MatrixFrom ==
    \E M \in 0..ApiRows, N \in 0..ApiCols, s \in {0, MaxElem} :
        Constructed("from", Matrix_from(Literal(M, N, s), M, N), M, N, s)

\* &matrix[row_index]
MatrixIndex ==
    /\ m # NoMatrix
    /\ call.ok
    /\ \E row_index \in 0..usize_MAX :
          LET out == Matrix_index(m, row_index)
          IN  call' = [NoApiCall EXCEPT !.name = "index",
                                        !.row_index = row_index,
                                        !.ok = (out.ret.tag = "Some"),
                                        !.ret = out.ret]
    /\ UNCHANGED <<iterVars, mulVars, overflow_checks, writes>>

\* a write into the matrix held: the call record and the matrix after it
Wrote(name, out, row_index, j, v) ==
    /\ m' = out.matrix
    /\ call' = [NoApiCall EXCEPT !.name = name,
                                 !.row_index = row_index,
                                 !.column = j,
                                 !.fill_value = v,
                                 !.ok = out.ok]
    /\ writes' = IF out.ok THEN writes + 1 ELSE writes
    /\ UNCHANGED <<it, ret, op, pre, yielded, onlyNext, twin, mulVars, overflow_checks>>

\* matrix[row_index][j] = v
MatrixIndexMut ==
    /\ m # NoMatrix
    /\ call.ok
    /\ writes < MaxWrites
    /\ \E row_index \in 0..usize_MAX, j \in 0..(ApiCols - 1), v \in WriteValues :
          Wrote("index_mut", IndexAssign(m, row_index, j, v), row_index, j, v)

\* a write through the slice rows_mut() yields for row r
MatrixRowsMutWrite ==
    /\ m # NoMatrix
    /\ call.ok
    /\ writes < MaxWrites
    /\ \E r \in 0..(ApiRows + 1), j \in 0..(ApiCols - 1), v \in WriteValues :
          Wrote("rows_mut", RowsMutAssign(m, r, j, v), r, j, v)

\* the swap of row n and the last row through rows_mut()
MatrixRowsMutSwap ==
    /\ m # NoMatrix
    /\ call.ok
    /\ writes < MaxWrites
    /\ \E n \in 0..ApiRows :
          Wrote("swap", RowsMutSwap(m, n), n, 0, 0)

\* matrix == other
MatrixEq ==
    /\ m # NoMatrix
    /\ call.ok
    /\ \E other \in EqOperands(m) :
          call' = [NoApiCall EXCEPT !.name = "eq",
                                    !.other = other,
                                    !.equal = Matrix_eq(m, other)]
    /\ UNCHANGED <<iterVars, mulVars, overflow_checks, writes>>

NextMatrix ==
    \/ MatrixFull
    \/ MatrixNew
    \/ MatrixZeros
    \/ MatrixOnes
    \/ MatrixFrom
    \/ MatrixIndex
    \/ MatrixIndexMut
    \/ MatrixRowsMutWrite
    \/ MatrixRowsMutSwap
    \/ MatrixEq

SpecMatrix ==
    InitMatrix /\ [][NextMatrix]_vars

\* ------------------------------------------- reading the multiplication
\* the sum over k < n of lhs[i][k] * rhs[k][j]
RECURSIVE DotProduct(_, _, _, _, _)
DotProduct(lhs, rhs, i, j, n) ==
    IF n = 0
    THEN 0
    ELSE DotProduct(lhs, rhs, i, j, n - 1)
         + lhs.data[i * lhs.num_columns + (n - 1)]
           * rhs.data[(n - 1) * rhs.num_columns + j]

\* res is the matrix product of lhs and rhs
IsProduct(res, lhs, rhs) ==
    /\ res.num_rows = lhs.num_rows
    /\ res.num_columns = rhs.num_columns
    /\ DOMAIN res.data = 0..(lhs.num_rows * rhs.num_columns - 1)
    /\ \A i \in 0..(lhs.num_rows - 1), j \in 0..(rhs.num_columns - 1) :
          res.data[i * rhs.num_columns + j]
              = DotProduct(lhs, rhs, i, j, lhs.num_columns)

\* C1: for A (R x K) and B (K x C), Matrix::mul and matmul_naive each return
\* the (R, C) matrix whose cell (i,j) is the sum over k of A[i][k]*B[k][j],
\* and the two results are equal.
C1_BothComputeTheProduct ==
    /\ (a.num_columns = b.num_rows /\ pc \in {"returned", "panicked"}) =>
          /\ pc = "returned"
          /\ IsProduct(c, a, b)
    /\ (a.num_columns = b.num_rows /\ naive.status # "none") =>
          /\ naive.status = "ok"
          /\ IsProduct(naive.c, a, b)
          /\ naive.c = c

C1_Witness ==
    /\ pc = "returned"
    /\ naive.status = "ok"
    /\ a.num_rows >= 2
    /\ a.num_columns >= 2
    /\ b.num_columns >= 2
    /\ \E x, y \in DOMAIN c.data : c.data[x] # c.data[y] /\ c.data[x] > 1

\* C2: when A.num_columns # B.num_rows both multiplications fail with the
\* error carrying A.num_columns and B.num_rows, and Matrix::mul fails before
\* c is allocated, before any unit is pulled and before any cell is written.
C2_MismatchFailsFirst ==
    (a.num_columns # b.num_rows) =>
        /\ pc \in {"start", "panicked"}
        /\ c = NoMatrix
        /\ bridge = NoBridge
        /\ units = <<>>
        /\ drained = 0
        /\ log = <<>>
        /\ (pc = "panicked") =>
              err = [a_num_columns |-> a.num_columns, b_num_rows |-> b.num_rows]
        /\ (naive.status # "none") =>
              /\ naive.status = "panicked"
              /\ naive.c = NoMatrix
              /\ naive.err = [a_num_columns |-> a.num_columns,
                              b_num_rows |-> b.num_rows]

C2_Witness ==
    /\ a.num_columns # b.num_rows
    /\ pc = "panicked"
    /\ naive.status = "panicked"
    /\ err.a_num_columns = 2
    /\ err.b_num_rows = 1

\* the row of c that the u-th pulled unit is given
UnitRow(u) ==
    Slice((u - 1) * c.num_columns, c.num_columns)

\* C3: under every interleaving the unit for output row i writes only cells
\* of row i of c, no cell of c is written by two units, and the units leave
\* a and b as they are.
C3_StateInv ==
    /\ \A u \in 1..Len(units) :
          /\ units[u].ci = UnitRow(u)
          /\ units[u].ai = Slice((u - 1) * a.num_columns, a.num_columns)
    /\ \A cell \in DOMAIN log :
          \A x \in 1..Len(log[cell]) :
              /\ cell \in SliceCells(UnitRow(log[cell][x].unit))
              /\ log[cell][x].unit = log[cell][1].unit

C3_UnitsWriteOnlyTheirRow ==
    /\ []C3_StateInv
    /\ [][a' = a /\ b' = b]_vars

C3_Witness ==
    /\ pc = "forked"
    /\ Cardinality(Running) >= 2
    /\ \E x, y \in DOMAIN log :
          /\ log[x] # <<>>
          /\ log[y] # <<>>
          /\ log[x][1].unit # log[y][1].unit

\* C4: Matrix::mul has returned only when every row's unit has completed:
\* every unit was pulled and is done, and every cell of c has received all
\* of its A.num_columns terms.
C4_ReturnsAfterAllUnits ==
    (pc = "returned") =>
        /\ Len(units) = a.num_rows
        /\ Running = {}
        /\ \A cell \in DOMAIN c.data : Len(log[cell]) = a.num_columns
        /\ DOMAIN c.data = 0..(a.num_rows * b.num_columns - 1)

C4_Witness ==
    /\ pc = "returned"
    /\ threads >= 2
    /\ Len(units) >= 2
    /\ a.num_columns >= 2
    /\ b.num_columns >= 2

\* C18: under weak fairness of the caller and the workers, and for every
\* pool size >= 1, a Matrix::mul call with A.num_columns = B.num_rows
\* returns: it does not stay blocked at the join, and at the return each of
\* the A.num_rows rows of A has been pulled by exactly one unit, all done.
C18_Dispatched ==
    (pc = "returned") =>
        /\ Len(units) = a.num_rows
        /\ \A u \in 1..Len(units) : units[u].state = "done"
        /\ \A i \in 0..(a.num_rows - 1) :
              Cardinality({u \in 1..Len(units) :
                              units[u].ai = Slice(i * a.num_columns, a.num_columns)}) = 1

C18_MulTerminates ==
    /\ (pc = "start" /\ a.num_columns = b.num_rows) ~> (pc = "returned")
    /\ []C18_Dispatched

C18_Witness ==
    /\ pc = "returned"
    /\ threads = 1
    /\ Len(units) >= 2
    /\ drained = 1

\* C19: Matrix::mul and matmul_naive leave A and B as they are, shape and
\* cells, across every step of a call and after it, whether the call returns
\* or fails with the dimension mismatch.
C19_Step ==
    /\ a'.data = a.data
    /\ a'.num_rows = a.num_rows
    /\ a'.num_columns = a.num_columns
    /\ b'.data = b.data
    /\ b'.num_rows = b.num_rows
    /\ b'.num_columns = b.num_columns

C19_OperandsUnchanged ==
    [][C19_Step]_vars

C19_Witness ==
    /\ pc = "returned"
    /\ naive.status = "ok"
    /\ \E x \in DOMAIN c.data : c.data[x] > 0
    /\ \E x, y \in DOMAIN a.data : a.data[x] # a.data[y]

\* C20: for fixed A and B the matrix Matrix::mul returns is the same under
\* every interleaving of the units, every order of pulls and every pool
\* size: it is the matrix one worker running the units in order produces.
C20_ResultIsScheduleIndependent ==
    (pc = "returned") => c = Matrix_mul(a, b).c

C20_Witness ==
    /\ pc = "returned"
    /\ threads >= 2
    /\ Len(units) >= 2
    /\ \E x \in DOMAIN log : Len(log[x]) >= 2 /\ c.data[x] >= 2
    /\ \E x, y \in DOMAIN c.data : c.data[x] # c.data[y]

\* ------------------------------------------------ reading the Matrix API
Constructors ==
    {"full", "new", "zeros", "ones", "from"}

\* the rows of an array one after the other
RECURSIVE JoinRows(_)
JoinRows(array) ==
    IF array = <<>>
    THEN <<>>
    ELSE Head(array) \o JoinRows(Tail(array))

\* the step is a write of the named kind that went through
WriteStep(name) ==
    /\ call'.name = name
    /\ call'.ok
    /\ writes' = writes + 1

C11_Step ==
    /\ WriteStep("rows_mut") =>
          LET r == call'.row_index
              j == call'.column
              row == Matrix_index(m', r).ret
          IN  /\ row.tag = "Some"
              /\ m'.data[row.off + j] = call'.fill_value
              /\ DOMAIN m'.data = DOMAIN m.data
              /\ \A x \in DOMAIN m.data \ {r * m.num_columns + j} :
                    m'.data[x] = m.data[x]
              /\ m'.num_rows = m.num_rows
              /\ m'.num_columns = m.num_columns
    /\ (/\ WriteStep("swap")
        /\ call'.row_index = 0
        /\ m = Matrix_from(Literal(3, 2, 0), 3, 2).matrix) =>
          BufSeq(m'.data) = <<4, 5, 2, 3, 0, 1>>

\* C11: a write to element j of the slice rows_mut() yields for row r changes
\* cell (r, j) and no other: the read matrix[r][j] after it returns the value
\* written, every other cell and the shape are as before; and swapping the
\* rows nth(0) and last() yield on the 3x2 matrix [0,1,2,3,4,5] leaves
\* [4,5,2,3,0,1].
C11_WriteThrough ==
    [][C11_Step]_vars

C11_Witness ==
    /\ call.name = "swap"
    /\ call.ok
    /\ call.row_index = 0
    /\ m.num_rows = 3
    /\ BufSeq(m.data) = <<4, 5, 2, 3, 0, 1>>

\* C12: a constructor (full, new, zeros, ones, from) called with 0 rows or 0
\* columns panics and leaves no matrix; the panic names the dimension that
\* is 0, and rows when both are.
C12_ZeroDimensionFails ==
    (call.name \in Constructors /\ (call.num_rows = 0 \/ call.num_columns = 0)) =>
        /\ ~call.ok
        /\ m = NoMatrix
        /\ call.dimension_name = IF call.num_rows = 0 THEN "rows" ELSE "columns"

C12_Witness ==
    /\ call.name = "ones"
    /\ call.num_rows = 0
    /\ call.num_columns = 0
    /\ call.dimension_name = "rows"
    /\ m = NoMatrix

\* C13: on a matrix whose buffer holds num_rows * num_columns elements, row
\* indexing with row_index >= num_rows, for read and for write, panics,
\* whatever row_index * num_columns is modulo 2^WordBits; with row_index <
\* num_rows the read returns [row_index * num_columns, (row_index + 1) *
\* num_columns).
C13_IndexOutOfRangeFails ==
    (/\ call.name \in {"index", "index_mut"}
     /\ BufLen(m.data) = m.num_rows * m.num_columns) =>
        /\ (call.row_index >= m.num_rows) => ~call.ok
        /\ (call.name = "index" /\ call.row_index >= m.num_rows) =>
              call.ret = Panic
        /\ (call.name = "index" /\ call.row_index < m.num_rows) =>
              call.ret = Some(Slice(call.row_index * m.num_columns, m.num_columns))

\* C14: every matrix built has num_rows > 0, num_columns > 0 and a buffer of
\* num_rows * num_columns elements, also after writes; full(rows, cols, v)
\* has shape (rows, cols) and v in every cell.
C14_MatrixInvariants ==
    (m # NoMatrix) =>
        /\ m.num_rows > 0
        /\ m.num_columns > 0
        /\ BufLen(m.data) = m.num_rows * m.num_columns
        /\ (call.name = "full") =>
              /\ m.num_rows = call.num_rows
              /\ m.num_columns = call.num_columns
              /\ \A x \in DOMAIN m.data : m.data[x] = call.fill_value

\* C15: Matrix::from on M rows of N values (M, N > 0) builds a matrix with
\* num_rows = M, num_columns = N whose buffer is the rows one after the
\* other, so that matrix[i][j] is array[i][j].
C15_FromIsRowMajor ==
    (call.name = "from" /\ call.num_rows > 0 /\ call.num_columns > 0) =>
        LET array == Literal(call.num_rows, call.num_columns, call.fill_value)
        IN  /\ call.ok
            /\ m.num_rows = call.num_rows
            /\ m.num_columns = call.num_columns
            /\ BufSeq(as_flattened(m)) = JoinRows(array)
            /\ \A i \in 0..(call.num_rows - 1), j \in 0..(call.num_columns - 1) :
                  /\ Matrix_index(m, i).ret.tag = "Some"
                  /\ m.data[Matrix_index(m, i).ret.off + j] = array[i + 1][j + 1]

C15_Witness ==
    /\ call.name = "from"
    /\ call.ok
    /\ m.num_rows = 3
    /\ m.num_columns = 2
    /\ BufSeq(as_flattened(m)) = <<1, 2, 3, 4, 5, 6>>

\* C16: matrix == other holds exactly when the two have the same num_rows,
\* the same num_columns and buffers equal element by element; a matrix and
\* its values under the transposed shape differ unless the matrix is square,
\* and a matrix equals itself.
C16_EqualIffShapeAndData ==
    (call.name = "eq") =>
        /\ call.equal <=>
              /\ m.num_rows = call.other.num_rows
              /\ m.num_columns = call.other.num_columns
              /\ BufLen(m.data) = BufLen(call.other.data)
              /\ \A x \in DOMAIN m.data : m.data[x] = call.other.data[x]
        /\ (call.other = m) => call.equal
        /\ (/\ call.other.data = m.data
            /\ call.other.num_rows = m.num_columns
            /\ call.other.num_columns = m.num_rows
            /\ m.num_rows # m.num_columns) => ~call.equal

C16_Witness ==
    /\ call.name = "eq"
    /\ ~call.equal
    /\ m.num_rows = 3
    /\ m.num_columns = 2
    /\ call.other.num_rows = 2
    /\ call.other.num_columns = 3
    /\ call.other.data = m.data

\* the cells of c left of cell x in its row
LeftInRow(x) ==
    {y \in DOMAIN log : y < x /\ y \div c.num_columns = x \div c.num_columns}

\* C21: in Matrix::mul every cell C[i][j] starts at 0 and receives the terms
\* A[i][k] * B[k][j] for k = 0, 1, ..., K-1 in this order, the reads
\* matmul_naive makes for the cell; a unit pairs row i of C with row i of A
\* and row k of B with A[i][k], runs k as its outer and j as its inner loop,
\* and at the return no term is missing.
C21_AccumulationOrder ==
    (pc \in {"forked", "returned"}) =>
        /\ \A u \in 1..Len(units) :
              units[u].ci.off \div c.num_columns = units[u].ai.off \div a.num_columns
        /\ \A x \in DOMAIN log :
              LET i == x \div c.num_columns
                  j == x % c.num_columns
                  terms == NaiveTerms(a, b, i, j)
              IN  /\ Len(log[x]) <= Len(terms)
                  /\ \A n \in 1..Len(log[x]) :
                        /\ log[x][n].k = n - 1
                        /\ log[x][n].aik = terms[n].aik
                        /\ log[x][n].bkj = terms[n].bkj
                  /\ c.data[x] = DotProduct(a, b, i, j, Len(log[x]))
                  /\ \A y \in LeftInRow(x) :
                        /\ Len(log[y]) >= Len(log[x])
                        /\ Len(log[y]) <= Len(log[x]) + 1
                  /\ (pc = "returned") => Len(log[x]) = Len(terms)

C21_Witness ==
    /\ pc = "forked"
    /\ Cardinality(Running) = 2
    /\ \E x \in DOMAIN log :
          /\ Len(log[x]) = 2
          /\ c.data[x] = 2
          /\ \E y \in DOMAIN log :
                /\ y \div c.num_columns = x \div c.num_columns
                /\ Len(log[y]) = 1

\* C22: a Rows and a RowsMut over buffers of the same length and column
\* width, driven by the same calls of next(), nth(n), size_hint(), count()
\* and last(), return the same at every step and hold remaining slices of
\* the same offset and length after every step.
C22_RowsAndRowsMutAgree ==
    (it.kind = "pair") =>
        /\ ret = twin.ret
        /\ (it.status = "live") => it.slice = twin.slice

====
